---- MODULE Spec2Model ----
(***************************************************************************)
(* A model of the MEDS accessor class of src/meds/meds.py: index           *)
(* validation, cutout / mosaic / list extraction over flat pixel           *)
(* extensions, the shared-storage views of a mosaic, and the composite     *)
(* weight algorithm.                                                       *)
(*                                                                         *)
(* Conventions                                                             *)
(*   - numpy arrays live in `heap`, a sequence of flat buffers; an array   *)
(*     object is a handle [base, off, nrow, ncol] (C-contiguous), so that  *)
(*     a basic slice is a view on the buffer of its parent and a copy is   *)
(*     a new buffer.                                                       *)
(*   - f8 values (anchors, Jacobian coefficients, mapped coordinates) are  *)
(*     exact rationals <<n, d>> with d > 0.                                *)
(*   - integer indexing follows numpy: an index i of an axis of length n   *)
(*     is accepted for -n <= i < n, negative values counting from the      *)
(*     end, and anything else raises IndexError.  A float used as an       *)
(*     index, and astype('i8'), truncate toward zero (the numpy the        *)
(*     Python 2 source was written for).                                   *)
(***************************************************************************)
EXTENDS Integers, Sequences, FiniteSets, TLC

VARIABLES cat, image_info, fits, heap, ret, pc, loc, nwrites

vars == <<cat, image_info, fits, heap, ret, pc, loc, nwrites>>

\* Bounds of the model.
MaxSeg == 2
MaxWrites == 2

-----------------------------------------------------------------------------
(* Exact rationals standing for f8 values.  Rat gives the value in lowest  *)
(* terms; the catalog holds such values.                                   *)

Abs(x) == IF x < 0 THEN -x ELSE x

RECURSIVE Gcd(_, _)
Gcd(a, b) == IF b = 0 THEN a ELSE Gcd(b, a % b)

Reduce(n, d, g) == IF d < 0 THEN <<(-n) \div g, (-d) \div g>> ELSE <<n \div g, d \div g>>
Rat(n, d) == Reduce(n, d, Gcd(Abs(n), Abs(d)))

\* arithmetic; results keep d > 0 and need not be in lowest terms
RInt(i) == <<i, 1>>
RAdd(x, y) == <<x[1] * y[2] + y[1] * x[2], x[2] * y[2]>>
RSub(x, y) == <<x[1] * y[2] - y[1] * x[2], x[2] * y[2]>>
RMul(x, y) == <<x[1] * y[1], x[2] * y[2]>>
RDiv(x, y) ==
    IF y[1] < 0 THEN <<-(x[1] * y[2]), -(x[2] * y[1])>>
    ELSE <<x[1] * y[2], x[2] * y[1]>>
RIsZero(x) == x[1] = 0

\* float -> integer as the source does it: truncation toward zero
Trunc(x) == IF x[1] >= 0 THEN x[1] \div x[2] ELSE -((-x[1]) \div x[2])

-----------------------------------------------------------------------------
(* numpy indexing, slicing and arrays.                                     *)

Arr0(s) == [i \in 0..(Len(s) - 1) |-> s[i + 1]]

IndexOk(i, n) == -n <= i /\ i < n
NormIndex(i, n) == IF i < 0 THEN i + n ELSE i

\* flat[a:b] of a flat extension, 0 <= a <= b <= Len(flat)
Slice(flat, a, b) == [k \in 1..(b - a) |-> flat[a + k]]

Handle(base, off, nrow, ncol) ==
    [base |-> base, off |-> off, nrow |-> nrow, ncol |-> ncol]

\* element (r, c) of the array a in heap h
At(h, a, r, c) == h[a.base][a.off + r * a.ncol + c + 1]

Pixels(a) == (0..(a.nrow - 1)) \X (0..(a.ncol - 1))

\* a[r, c] = v
SetAt(h, a, r, c, v) ==
    [h EXCEPT ![a.base][a.off + r * a.ncol + c + 1] = v]

-----------------------------------------------------------------------------
(* The catalog, the image-info table and the pixel extensions, as read     *)
(* by __init__.  Three objects: object 0 has two cutouts of box size 2,    *)
(* object 1 has none, object 2 has one cutout of box size 1.  Entries at   *)
(* cutout index >= ncutout are padding.                                    *)

Zero == RInt(0)
One == RInt(1)
JPad == <<Zero, Zero, Zero, Zero>>
JIdent == <<One, Zero, Zero, One>>

\* anchors <<cutout_row, cutout_col>> the initial catalogs draw from
AnchorPairs ==
    { <<Rat(4, 10), Rat(6, 10)>>,   <<Rat(6, 10), Rat(16, 10)>>,
      <<Rat(16, 10), Rat(4, 10)>>,  <<RInt(1), RInt(1)>>,
      <<Rat(-6, 10), Rat(4, 10)>>,  <<Rat(4, 10), Rat(-14, 10)>>,
      <<RInt(2), Rat(4, 10)>>,      <<Rat(6, 10), Rat(26, 10)>> }

RefAnchorPairs ==
    { <<Rat(4, 10), Rat(6, 10)>>, <<Rat(16, 10), Rat(4, 10)>>,
      <<Rat(6, 10), RInt(2)>> }

\* Jacobians <<dudrow, dudcol, dvdrow, dvdcol>> of the reference cutout
RefJacobians ==
    { JIdent, JPad,
      <<One, RInt(2), RInt(2), RInt(4)>>,
      <<Zero, Rat(1, 2), RInt(-1), Zero>> }

\* Jacobians of the epoch cutout
EpochJacobians ==
    { JIdent,
      <<RInt(2), Zero, Zero, RInt(2)>>,
      <<One, One, Zero, RInt(-1)>> }

SegLabels == 1..MaxSeg

\* segmentation pixels of object 0's reference cutout, flat
RefSegs == [1..4 -> SegLabels]

Catalog(a0, a1, jref, jep) ==
    [ id         |-> Arr0(<<101, 102, 103>>),
      ncutout    |-> Arr0(<<2, 0, 1>>),
      box_size   |-> Arr0(<<2, 2, 1>>),
      file_id    |-> Arr0(<<Arr0(<<0, 1>>), Arr0(<<0, 0>>), Arr0(<<0, 0>>)>>),
      start_row  |-> Arr0(<<Arr0(<<0, 4>>), Arr0(<<0, 0>>), Arr0(<<8, 0>>)>>),
      cutout_row |-> Arr0(<<Arr0(<<a0[1], a1[1]>>), Arr0(<<Zero, Zero>>),
                            Arr0(<<Zero, Zero>>)>>),
      cutout_col |-> Arr0(<<Arr0(<<a0[2], a1[2]>>), Arr0(<<Zero, Zero>>),
                            Arr0(<<Zero, Zero>>)>>),
      dudrow     |-> Arr0(<<Arr0(<<jref[1], jep[1]>>), Arr0(<<Zero, Zero>>),
                            Arr0(<<One, Zero>>)>>),
      dudcol     |-> Arr0(<<Arr0(<<jref[2], jep[2]>>), Arr0(<<Zero, Zero>>),
                            Arr0(<<Zero, Zero>>)>>),
      dvdrow     |-> Arr0(<<Arr0(<<jref[3], jep[3]>>), Arr0(<<Zero, Zero>>),
                            Arr0(<<Zero, Zero>>)>>),
      dvdcol     |-> Arr0(<<Arr0(<<jref[4], jep[4]>>), Arr0(<<Zero, Zero>>),
                            Arr0(<<One, Zero>>)>>) ]

ImageInfo ==
    Arr0(<< [image_path |-> "coadd.fits", sky_path |-> "coadd_sky.fits"],
            [image_path |-> "se1.fits",   sky_path |-> "se1_sky.fits"] >>)

\* the three flat pixel extensions; seg0 is object 0's reference cutout
Extensions(seg0) ==
    [ image_cutouts  |-> [k \in 1..9 |-> 100 + k],
      weight_cutouts |-> [k \in 1..9 |-> 10 + k],
      seg_cutouts    |-> [k \in 1..9 |-> IF k <= 4 THEN seg0[k] ELSE 1] ]

\* self._cat.size
size == Cardinality(DOMAIN cat.ncutout)
\* NMAX, the length of the per-cutout axis of the catalog
nmax == Cardinality(DOMAIN cat.start_row[0])

-----------------------------------------------------------------------------
(* MEDS._check_indices, _get_extension_name, get_cutout, get_mosaic,       *)
(* _split_mosaic, get_cutout_list, get_source_info, get_jacobian.          *)
(* An operation that raises yields the exception as its status.            *)

OK == "ok"
BadObject == "ValueError: object index should be within [0,size)"
NoCutouts == "ValueError: object has no cutouts"
BadCutout == "ValueError: requested cutout index should be in bounds"
BadType == "ValueError: bad cutout type"
NumpyIndexError == "IndexError"

NoArr == Handle(0, 0, 0, 0)
Raise(h, st) == [status |-> st, heap |-> h, arr |-> NoArr]

\* _check_indices(iobj): the object part, icutout=None
check_object(iobj) ==
    IF iobj >= size THEN BadObject
    ELSE IF ~IndexOk(iobj, size) THEN NumpyIndexError
    ELSE IF cat.ncutout[NormIndex(iobj, size)] = 0 THEN NoCutouts
    ELSE OK

\* _check_indices(iobj, icutout=icutout)
check_indices(iobj, icutout) ==
    IF check_object(iobj) # OK THEN check_object(iobj)
    ELSE IF icutout >= cat.ncutout[NormIndex(iobj, size)] THEN BadCutout
    ELSE OK

\* self._cat[field][iobj, icutout] for indices numpy accepts
CatAt(field, iobj, icutout) ==
    cat[field][NormIndex(iobj, size)][NormIndex(icutout, nmax)]

get_extension_name(type) ==
    IF type = "image" THEN "image_cutouts"
    ELSE IF type = "weight" THEN "weight_cutouts"
    ELSE IF type = "seg" THEN "seg_cutouts"
    ELSE BadType

\* imflat.reshape(nrow, ncol) of a fresh flat read: a new buffer
NewArray(h, flat, nrow, ncol) ==
    [status |-> OK, heap |-> Append(h, flat),
     arr |-> Handle(Len(h) + 1, 0, nrow, ncol)]

get_cutout_colmajor(h, iobj, icutout, type) ==
    IF check_indices(iobj, icutout) # OK
    THEN Raise(h, check_indices(iobj, icutout))
    ELSE IF ~IndexOk(icutout, nmax) THEN Raise(h, NumpyIndexError)
    ELSE IF get_extension_name(type) = BadType THEN Raise(h, BadType)
    ELSE LET box_size == cat.box_size[NormIndex(iobj, size)]
             start_row == CatAt("start_row", iobj, icutout)
             imflat == Slice(fits[get_extension_name(type)], start_row,
                             start_row + box_size * box_size)
             tr == [k \in 1..(box_size * box_size) |->
                      imflat[((k - 1) % box_size) * box_size
                             + ((k - 1) \div box_size) + 1]]
         IN  NewArray(h, tr, box_size, box_size)
get_cutout(h, iobj, icutout, type) ==
    IF check_indices(iobj, icutout) # OK
    THEN Raise(h, check_indices(iobj, icutout))
    ELSE IF ~IndexOk(icutout, nmax) THEN Raise(h, NumpyIndexError)
    ELSE IF get_extension_name(type) = BadType THEN Raise(h, BadType)
    ELSE LET box_size == cat.box_size[NormIndex(iobj, size)]
             start_row == CatAt("start_row", iobj, icutout)
             row_end == start_row + box_size * box_size
             imflat == Slice(fits[get_extension_name(type)], start_row, row_end)
         IN  NewArray(h, imflat, box_size, box_size)

get_mosaic(h, iobj, type) ==
    IF check_object(iobj) # OK THEN Raise(h, check_object(iobj))
    ELSE IF get_extension_name(type) = BadType THEN Raise(h, BadType)
    ELSE LET ncutout == cat.ncutout[NormIndex(iobj, size)]
             box_size == cat.box_size[NormIndex(iobj, size)]
             start_row == CatAt("start_row", iobj, 0)
             row_end == start_row + box_size * box_size * ncutout
             mflat == Slice(fits[get_extension_name(type)], start_row, row_end)
         IN  NewArray(h, mflat, ncutout * box_size, box_size)

\* a copy of the array a in a new buffer (numpy's a.copy())
Copy(h, a) ==
    NewArray(h, [k \in 1..(a.nrow * a.ncol) |->
                   At(h, a, (k - 1) \div a.ncol, (k - 1) % a.ncol)],
             a.nrow, a.ncol)

\* mosaic[r1:r2, :], a view on the buffer of mosaic
RowBand(mosaic, r1, r2) ==
    Handle(mosaic.base, mosaic.off + r1 * mosaic.ncol, r2 - r1, mosaic.ncol)

\* the list of views; element i of the Python list is [i + 1] here
split_mosaic_overlap(mosaic, box_size, ncutout) ==
    [k \in 1..ncutout |->
        RowBand(mosaic, (k - 1) * (box_size - 1), (k - 1) * (box_size - 1) + box_size)]
split_mosaic(mosaic, box_size, ncutout) ==
    [k \in 1..ncutout |->
        LET i == k - 1
            r1 == i * box_size
            r2 == (i + 1) * box_size
        IN  RowBand(mosaic, r1, r2)]

list_of(h, m, iobj) ==
    IF m.status # OK
    THEN [status |-> m.status, heap |-> h, arr |-> NoArr, list |-> <<>>]
    ELSE [status |-> OK, heap |-> m.heap, arr |-> m.arr,
          list |-> split_mosaic(m.arr, cat.box_size[NormIndex(iobj, size)],
                                cat.ncutout[NormIndex(iobj, size)])]
get_cutout_list(h, iobj, type) == list_of(h, get_mosaic(h, iobj, type), iobj)

NoInfo == [image_path |-> "", sky_path |-> ""]
get_source_info(iobj, icutout) ==
    IF check_indices(iobj, icutout) # OK
    THEN [status |-> check_indices(iobj, icutout), ifile |-> -1, info |-> NoInfo]
    ELSE IF ~IndexOk(icutout, nmax)
    THEN [status |-> NumpyIndexError, ifile |-> -1, info |-> NoInfo]
    ELSE LET ifile == CatAt("file_id", iobj, icutout)
             n == Cardinality(DOMAIN image_info)
         IN  IF ~IndexOk(ifile, n)
             THEN [status |-> NumpyIndexError, ifile |-> ifile, info |-> NoInfo]
             ELSE [status |-> OK, ifile |-> ifile,
                   info |-> image_info[NormIndex(ifile, n)]]

get_jacob_as_matrix(iobj, icutout) ==
    << CatAt("dudrow", iobj, icutout), CatAt("dudcol", iobj, icutout),
       CatAt("dvdrow", iobj, icutout), CatAt("dvdcol", iobj, icutout) >>

get_jacobian(iobj, icutout) ==
    IF check_indices(iobj, icutout) # OK
    THEN [status |-> check_indices(iobj, icutout), jacob |-> JPad]
    ELSE IF ~IndexOk(icutout, nmax)
    THEN [status |-> NumpyIndexError, jacob |-> JPad]
    ELSE [status |-> OK, jacob |-> get_jacob_as_matrix(iobj, icutout)]

-----------------------------------------------------------------------------
(* MEDS._make_composite_weight.                                            *)

\* a[Z] = 0.0 for a set Z of pixels of a
ZeroAt(h, a, Z) ==
    [h EXCEPT ![a.base] =
        [k \in DOMAIN @ |->
            IF \E p \in Z : k = a.off + p[1] * a.ncol + p[2] + 1
            THEN 0 ELSE @[k]]]

\* the index pair of  segid = coadd_seg[coadd_rowcen, coadd_colcen]
segid_index(iobj, icutout) ==
    << Trunc(CatAt("cutout_row", iobj, icutout)),
       Trunc(CatAt("cutout_col", iobj, icutout)) >>

Det(j) == RSub(RMul(j[1], j[4]), RMul(j[2], j[3]))

\* coadd_jacob.getI() of a matrix with non-zero determinant
InverseWith(j, det) ==
    << RDiv(j[4], det), RDiv(RSub(Zero, j[2]), det),
       RDiv(RSub(Zero, j[3]), det), RDiv(j[1], det) >>
Inverse(j) == InverseWith(j, Det(j))

\* crow, ccol = center + u*cjinv[..] + v*cjinv[..]
FromUV_transposed(coadd_rowcen, coadd_colcen, cjinv, u, v) ==
    << RAdd(coadd_rowcen, RAdd(RMul(u, cjinv[2]), RMul(v, cjinv[1]))),
       RAdd(coadd_colcen, RAdd(RMul(u, cjinv[4]), RMul(v, cjinv[3]))) >>
FromUV(coadd_rowcen, coadd_colcen, cjinv, u, v) ==
    << RAdd(coadd_rowcen, RAdd(RMul(u, cjinv[1]), RMul(v, cjinv[2]))),
       RAdd(coadd_colcen, RAdd(RMul(u, cjinv[3]), RMul(v, cjinv[4]))) >>

\* u, v = rows*se_jacob[..] + cols*se_jacob[..]
FromOffsets(coadd_rowcen, coadd_colcen, se_jacob, cjinv, rows, cols) ==
    FromUV(coadd_rowcen, coadd_colcen, cjinv,
           RAdd(RMul(rows, se_jacob[1]), RMul(cols, se_jacob[2])),
           RAdd(RMul(rows, se_jacob[3]), RMul(cols, se_jacob[4])))

\* rows, cols = mgrid - rowcen, colcen; both centers are the anchor of
\* this cutout
FromPixel(rowcen, colcen, se_jacob, cjinv, r, c) ==
    FromOffsets(rowcen, colcen, se_jacob, cjinv,
                RSub(RInt(r), rowcen), RSub(RInt(c), colcen))

\* <<crow, ccol>> of pixel (r, c) of an epoch cutout before astype('i8')
mapped_coord(iobj, icutout, r, c) ==
    FromPixel(CatAt("cutout_row", iobj, icutout),
              CatAt("cutout_col", iobj, icutout),
              get_jacob_as_matrix(iobj, icutout),
              Inverse(get_jacob_as_matrix(iobj, 0)), r, c)

\* crow.astype('i8'), ccol.astype('i8')
ToPixel(m) == <<Trunc(m[1]), Trunc(m[2])>>
pixel_coord(iobj, icutout, r, c) == ToPixel(mapped_coord(iobj, icutout, r, c))

\* (crow < 0) | (crow >= shape[0]) & (ccol < 0) | (ccol >= shape[1])
\* as Python groups it: & binds tighter than |
oob_mask(crow, ccol, nrow, ncol) ==
    (crow < 0) \/ ((crow >= nrow) /\ (ccol < 0)) \/ (ccol >= ncol)

Clip(x, lo, hi) == IF x < lo THEN lo ELSE IF x > hi THEN hi ELSE x

\* w = numpy.where(coadd_seg != segid) of the reference case
ref_bad_inverted(h, coadd_seg, segid) ==
    {p \in Pixels(coadd_seg) : At(h, coadd_seg, p[1], p[2]) = segid}
ref_bad(h, coadd_seg, segid) ==
    {p \in Pixels(coadd_seg) : At(h, coadd_seg, p[1], p[2]) # segid}

\* both wbad sets of the epoch case
BadAt(h, coadd_seg, segid, crow, ccol) ==
    \/ oob_mask(crow, ccol, coadd_seg.nrow, coadd_seg.ncol)
    \/ At(h, coadd_seg, Clip(crow, 0, coadd_seg.nrow - 1),
          Clip(ccol, 0, coadd_seg.ncol - 1)) # segid
epoch_bad(h, iobj, icutout, cwt, coadd_seg, segid) ==
    {p \in Pixels(cwt) :
        \E q \in {pixel_coord(iobj, icutout, p[1], p[2])} :
            BadAt(h, coadd_seg, segid, q[1], q[2])}

\* the except branch: cwt[:,:] = 0.0
singular_fallback_keep(h, cwt) == h
singular_fallback(h, cwt) == ZeroAt(h, cwt, Pixels(cwt))

\* the body after the copy and the segid lookup: the two branches
composite_body(c, h, iobj, icutout, coadd_seg, segid) ==
    [status |-> OK, arr |-> c.arr,
     heap |-> IF icutout = 0
              THEN ZeroAt(c.heap, c.arr, ref_bad(h, coadd_seg, segid))
              ELSE IF RIsZero(Det(get_jacob_as_matrix(iobj, 0)))
              THEN singular_fallback(c.heap, c.arr)
              ELSE ZeroAt(c.heap, c.arr,
                          epoch_bad(h, iobj, icutout, c.arr, coadd_seg, segid))]

\* segid = coadd_seg[coadd_rowcen, coadd_colcen], idx the truncated pair
composite_at(c, h, iobj, icutout, coadd_seg, idx) ==
    IF ~(IndexOk(idx[1], coadd_seg.nrow) /\ IndexOk(idx[2], coadd_seg.ncol))
    THEN Raise(h, NumpyIndexError)
    ELSE composite_body(c, h, iobj, icutout, coadd_seg,
                        At(h, coadd_seg, NormIndex(idx[1], coadd_seg.nrow),
                           NormIndex(idx[2], coadd_seg.ncol)))

\* cwt = wt.copy(), then the rest on cwt
make_composite_weight(h, iobj, icutout, wt, coadd_seg) ==
    composite_at(Copy(h, wt), h, iobj, icutout, coadd_seg,
                 segid_index(iobj, icutout))

\* get_cweight_cutout; w and s are its two reads, c the composite
NoCweight(h, st) ==
    [status |-> st, heap |-> h, arr |-> NoArr, wt |-> NoArr,
     coadd_seg |-> NoArr]
cweight_result(w, s, c) ==
    [status |-> c.status, heap |-> c.heap, arr |-> c.arr,
     wt |-> w.arr, coadd_seg |-> s.arr]
cweight_with_seg(h, w, s, iobj, icutout) ==
    IF s.status # OK THEN NoCweight(h, s.status)
    ELSE cweight_result(w, s, make_composite_weight(s.heap, iobj, icutout,
                                                    w.arr, s.arr))
cweight_with_wt(h, w, iobj, icutout) ==
    IF w.status # OK THEN NoCweight(h, w.status)
    ELSE cweight_with_seg(h, w, get_cutout(w.heap, iobj, 0, "seg"),
                          iobj, icutout)
get_cweight_cutout(h, iobj, icutout) ==
    cweight_with_wt(h, get_cutout(h, iobj, icutout, "weight"), iobj, icutout)

-----------------------------------------------------------------------------
(* The state machine.  A caller makes one call at a time; `ret` is what    *)
(* the last call returned (or raised) and `heap` holds the arrays it        *)
(* allocated, earlier results being dropped.  get_cweight_mosaic and        *)
(* get_cweight_cutout_list run their loop one cutout per step; `loc`        *)
(* holds their local variables (and, after get_cweight_cutout, its two      *)
(* reads).  The caller may write pixels through the mosaic and the views    *)
(* a get_cutout_list call gave it.                                         *)

\* the arguments the caller draws from: in range, one past either end,
\* and negative values numpy wraps (-1) or rejects (-4, -3)
ObjIndices == {-4, -1, 0, 1, 2, 3}
CutIndices == {-3, -1, 0, 1, 2}
Types == {"image", "weight", "seg", "psf"}
WriteVals == {-1}

NoLoc == [iobj |-> 0, icutout |-> 0, aslist |-> FALSE, wtmosaic |-> NoArr,
          coadd_seg |-> NoArr, wlist |-> <<>>, wt |-> NoArr]

NoRet == [op |-> "none", iobj |-> 0, icutout |-> 0, type |-> "",
          status |-> OK, arr |-> NoArr, list |-> <<>>,
          info |-> NoInfo, jacob |-> JPad]

Start(a0, a1, jref, jep, seg0) ==
    /\ cat = Catalog(a0, a1, jref, jep)
    /\ image_info = ImageInfo
    /\ fits = Extensions(seg0)
    /\ heap = <<>>
    /\ ret = NoRet
    /\ pc = "idle"
    /\ loc = NoLoc
    /\ nwrites = 0

\* a few catalogs, for the accessors
Init ==
    \E a0 \in RefAnchorPairs, seg0 \in {<<1, 1, 2, 1>>, <<1, 2, 2, 1>>} :
        Start(a0, <<Rat(6, 10), Rat(16, 10)>>, JIdent, JIdent, seg0)

\* every catalog and reference segmentation, for the composite weight
InitCW ==
    \E a0 \in RefAnchorPairs, a1 \in AnchorPairs, jref \in RefJacobians,
       jep \in EpochJacobians, seg0 \in RefSegs :
        Start(a0, a1, jref, jep, seg0)

Fixed == UNCHANGED <<cat, image_info, fits>>

GetCutout(iobj, icutout, type) ==
    /\ pc = "idle"
    /\ \E r \in {get_cutout(<<>>, iobj, icutout, type)} :
           /\ heap' = r.heap
           /\ ret' = [NoRet EXCEPT !.op = "get_cutout", !.iobj = iobj,
                        !.icutout = icutout, !.type = type,
                        !.status = r.status, !.arr = r.arr]
    /\ loc' = NoLoc /\ nwrites' = 0 /\ pc' = pc
    /\ Fixed

GetMosaic(iobj, type) ==
    /\ pc = "idle"
    /\ \E r \in {get_mosaic(<<>>, iobj, type)} :
           /\ heap' = r.heap
           /\ ret' = [NoRet EXCEPT !.op = "get_mosaic", !.iobj = iobj,
                        !.type = type, !.status = r.status, !.arr = r.arr]
    /\ loc' = NoLoc /\ nwrites' = 0 /\ pc' = pc
    /\ Fixed

\* ret.arr is the mosaic the views of ret.list were split from
GetCutoutList(iobj, type) ==
    /\ pc = "idle"
    /\ \E r \in {get_cutout_list(<<>>, iobj, type)} :
           /\ heap' = r.heap
           /\ ret' = [NoRet EXCEPT !.op = "get_cutout_list", !.iobj = iobj,
                        !.type = type, !.status = r.status, !.arr = r.arr,
                        !.list = r.list]
    /\ loc' = NoLoc /\ nwrites' = 0 /\ pc' = pc
    /\ Fixed

GetSourceInfo(iobj, icutout) ==
    /\ pc = "idle"
    /\ \E r \in {get_source_info(iobj, icutout)} :
           ret' = [NoRet EXCEPT !.op = "get_source_info", !.iobj = iobj,
                     !.icutout = icutout, !.status = r.status, !.info = r.info]
    /\ heap' = <<>> /\ loc' = NoLoc /\ nwrites' = 0 /\ pc' = pc
    /\ Fixed

GetJacobian(iobj, icutout) ==
    /\ pc = "idle"
    /\ \E r \in {get_jacobian(iobj, icutout)} :
           ret' = [NoRet EXCEPT !.op = "get_jacobian", !.iobj = iobj,
                     !.icutout = icutout, !.status = r.status, !.jacob = r.jacob]
    /\ heap' = <<>> /\ loc' = NoLoc /\ nwrites' = 0 /\ pc' = pc
    /\ Fixed

GetCweightCutout(iobj, icutout) ==
    /\ pc = "idle"
    /\ \E r \in {get_cweight_cutout(<<>>, iobj, icutout)} :
           /\ heap' = r.heap
           /\ ret' = [NoRet EXCEPT !.op = "get_cweight_cutout", !.iobj = iobj,
                        !.icutout = icutout, !.status = r.status, !.arr = r.arr]
           /\ loc' = [NoLoc EXCEPT !.iobj = iobj, !.icutout = icutout,
                        !.wt = r.wt, !.coadd_seg = r.coadd_seg]
    /\ nwrites' = 0 /\ pc' = pc
    /\ Fixed

\* the caller:  imlist[i][r, c] = v
WriteList(i, r, c, v) ==
    /\ pc = "idle"
    /\ ret.op = "get_cutout_list" /\ ret.status = OK
    /\ nwrites < MaxWrites
    /\ i + 1 \in DOMAIN ret.list
    /\ <<r, c>> \in Pixels(ret.list[i + 1])
    /\ heap' = SetAt(heap, ret.list[i + 1], r, c, v)
    /\ nwrites' = nwrites + 1
    /\ UNCHANGED <<ret, pc, loc>>
    /\ Fixed

\* the caller:  mosaic[r, c] = v
WriteMosaic(r, c, v) ==
    /\ pc = "idle"
    /\ ret.op = "get_cutout_list" /\ ret.status = OK
    /\ nwrites < MaxWrites
    /\ <<r, c>> \in Pixels(ret.arr)
    /\ heap' = SetAt(heap, ret.arr, r, c, v)
    /\ nwrites' = nwrites + 1
    /\ UNCHANGED <<ret, pc, loc>>
    /\ Fixed

OpName(aslist) ==
    IF aslist THEN "get_cweight_cutout_list" ELSE "get_cweight_mosaic"

\* get_cweight_mosaic up to its loop (called by get_cweight_cutout_list
\* when aslist)
CweightBegin(iobj, aslist) ==
    /\ pc = "idle"
    /\ \E m \in {get_mosaic(<<>>, iobj, "weight")} :
       \E s \in {IF m.status = OK THEN get_cutout(m.heap, iobj, 0, "seg")
                 ELSE m} :
           IF m.status # OK
           THEN /\ ret' = [NoRet EXCEPT !.op = OpName(aslist), !.iobj = iobj,
                             !.status = m.status]
                /\ heap' = <<>> /\ loc' = NoLoc /\ pc' = "idle"
           ELSE IF s.status # OK
           THEN /\ ret' = [NoRet EXCEPT !.op = OpName(aslist), !.iobj = iobj,
                             !.status = s.status]
                /\ heap' = <<>> /\ loc' = NoLoc /\ pc' = "idle"
           ELSE /\ ret' = [NoRet EXCEPT !.op = OpName(aslist), !.iobj = iobj,
                             !.status = "running"]
                /\ heap' = s.heap
                /\ loc' = [NoLoc EXCEPT !.iobj = iobj, !.aslist = aslist,
                             !.wtmosaic = m.arr, !.coadd_seg = s.arr,
                             !.wlist = split_mosaic(m.arr,
                                          cat.box_size[NormIndex(iobj, size)],
                                          cat.ncutout[NormIndex(iobj, size)])]
                /\ pc' = "cweight_loop"
    /\ nwrites' = 0
    /\ Fixed

\* wt[:,:] = cwt[:,:]
AssignAll_skipped(h, dst, src) == h
AssignAll(h, dst, src) ==
    [h EXCEPT ![dst.base] =
        [k \in DOMAIN @ |->
            IF \E p \in Pixels(dst) : k = dst.off + p[1] * dst.ncol + p[2] + 1
            THEN LET q == k - dst.off - 1
                 IN  At(h, src, q \div dst.ncol, q % dst.ncol)
            ELSE @[k]]]

\* one iteration of  for icutout,wt in enumerate(wlist)
CweightStep ==
    /\ pc = "cweight_loop"
    /\ loc.icutout < Len(loc.wlist)
    /\ \E wt \in {loc.wlist[loc.icutout + 1]} :
       \E c \in {make_composite_weight(heap, loc.iobj, loc.icutout, wt,
                                       loc.coadd_seg)} :
           IF c.status # OK
           THEN /\ ret' = [ret EXCEPT !.status = c.status]
                /\ heap' = <<>> /\ loc' = NoLoc /\ pc' = "idle"
           ELSE /\ heap' = SubSeq(AssignAll(c.heap, wt, c.arr), 1, Len(heap))
                /\ loc' = [loc EXCEPT !.icutout = @ + 1]
                /\ UNCHANGED <<ret, pc>>
    /\ UNCHANGED nwrites
    /\ Fixed

\* return wtmosaic; get_cweight_cutout_list then splits it again
CweightReturn ==
    /\ pc = "cweight_loop"
    /\ loc.icutout = Len(loc.wlist)
    /\ ret' = [ret EXCEPT !.status = OK, !.arr = loc.wtmosaic,
                 !.list = IF loc.aslist
                          THEN split_mosaic(loc.wtmosaic,
                                   cat.box_size[NormIndex(loc.iobj, size)],
                                   cat.ncutout[NormIndex(loc.iobj, size)])
                          ELSE <<>>]
    /\ pc' = "idle"
    /\ UNCHANGED <<heap, loc, nwrites>>
    /\ Fixed

Next ==
    \/ \E iobj \in ObjIndices, icutout \in CutIndices, type \in Types :
          GetCutout(iobj, icutout, type)
    \/ \E iobj \in ObjIndices, type \in Types : GetMosaic(iobj, type)
    \/ \E iobj \in ObjIndices, type \in Types : GetCutoutList(iobj, type)
    \/ \E iobj \in ObjIndices, icutout \in CutIndices :
          GetSourceInfo(iobj, icutout)
    \/ \E iobj \in ObjIndices, icutout \in CutIndices :
          GetJacobian(iobj, icutout)
    \/ \E iobj \in ObjIndices, icutout \in CutIndices :
          GetCweightCutout(iobj, icutout)
    \/ \E i \in 0..1, r \in 0..1, c \in 0..1, v \in WriteVals :
          WriteList(i, r, c, v)
    \/ \E r \in 0..3, c \in 0..1, v \in WriteVals : WriteMosaic(r, c, v)
    \/ \E iobj \in ObjIndices, aslist \in BOOLEAN : CweightBegin(iobj, aslist)
    \/ CweightStep
    \/ CweightReturn

\* the composite weight calls on object 0
NextCW ==
    \/ \E icutout \in 0..1 : GetCweightCutout(0, icutout)
    \/ \E aslist \in BOOLEAN : CweightBegin(0, aslist)
    \/ CweightStep
    \/ CweightReturn

Spec == Init /\ [][Next]_vars
SpecCW == InitCW /\ [][NextCW]_vars

-----------------------------------------------------------------------------
(* Properties.                                                             *)

\* (iobj, icutout) names a cutout of the catalog
Valid(iobj, icutout) ==
    /\ 0 <= iobj /\ iobj < size
    /\ 0 <= icutout /\ icutout < cat.ncutout[iobj]

PerCutoutOps ==
    {"get_cutout", "get_source_info", "get_jacobian", "get_cweight_cutout"}

IndexErrors == {BadObject, BadCutout, NumpyIndexError}

NoData ==
    /\ ret.arr = NoArr
    /\ ret.info = NoInfo
    /\ ret.jacob = JPad
    /\ heap = <<>>

\* C1: every per-cutout access with an object index outside [0, size), or
\* with an object that has cutouts and a cutout index outside [0, ncutout),
\* ends in an index error and returns no data.
C1_IndexValidation ==
    ( /\ ret.op \in PerCutoutOps
      /\ \/ ret.iobj < 0
         \/ ret.iobj >= size
         \/ /\ cat.ncutout[ret.iobj] >= 1
            /\ (ret.icutout < 0 \/ ret.icutout >= cat.ncutout[ret.iobj]) )
    => (ret.status \in IndexErrors /\ NoData)

\* the extension a kind selects, as the claim names it
KindExtension ==
    [image |-> "image_cutouts", weight |-> "weight_cutouts",
     seg |-> "seg_cutouts"]

\* C2: for valid indices get_cutout returns, for a kind of image, weight
\* or seg, a box_size x box_size array of box_size^2 elements whose element
\* (r, c) is the stored value at flat row start_row + r*box_size + c of the
\* kind's extension, and for any other kind the invalid-kind error.
C2_GetCutout ==
    (ret.op = "get_cutout" /\ Valid(ret.iobj, ret.icutout))
    => IF ret.type \in DOMAIN KindExtension
       THEN /\ ret.status = OK
            /\ ret.arr.nrow = cat.box_size[ret.iobj]
            /\ ret.arr.ncol = cat.box_size[ret.iobj]
            /\ Len(heap[ret.arr.base])
                 = cat.box_size[ret.iobj] * cat.box_size[ret.iobj]
            /\ \A p \in Pixels(ret.arr) :
                 At(heap, ret.arr, p[1], p[2])
                   = fits[KindExtension[ret.type]]
                         [cat.start_row[ret.iobj][ret.icutout]
                          + p[1] * cat.box_size[ret.iobj] + p[2] + 1]
       ELSE ret.status = BadType /\ ret.arr = NoArr

C2_Witness ==
    /\ ret.op = "get_cutout" /\ ret.iobj = 0 /\ ret.icutout = 1
    /\ ret.type = "seg" /\ ret.status = OK
    /\ At(heap, ret.arr, 1, 0) = fits.seg_cutouts[7]

\* the pixels of the mosaic m that differ between heaps h and g
Changed(h, g, m) == {p \in Pixels(m) : At(h, m, p[1], p[2]) # At(g, m, p[1], p[2])}

\* view i element (r, c) is mosaic element (i*box_size + r, c)
ViewsAgree(h, rt) ==
    /\ Len(rt.list) = cat.ncutout[NormIndex(rt.iobj, size)]
    /\ \A k \in DOMAIN rt.list :
         /\ rt.list[k].nrow = cat.box_size[NormIndex(rt.iobj, size)]
         /\ rt.list[k].ncol = cat.box_size[NormIndex(rt.iobj, size)]
         /\ \A p \in Pixels(rt.list[k]) :
              At(h, rt.list[k], p[1], p[2])
                = At(h, rt.arr,
                     (k - 1) * cat.box_size[NormIndex(rt.iobj, size)] + p[1],
                     p[2])

\* the (view, pixel) pairs that differ between heaps h and g
ChangedInViews(h, g, rt) ==
    {x \in (DOMAIN rt.list) \X Pixels(rt.list[1]) :
        At(h, rt.list[x[1]], x[2][1], x[2][2])
          # At(g, rt.list[x[1]], x[2][1], x[2][2])}

\* C3: after get_cutout_list and after every write through the mosaic or a
\* view, view i element (r, c) equals mosaic element (i*box_size + r, c);
\* a write (the step that counts in nwrites) changes at most one mosaic
\* pixel and as many view pixels, and a changed mosaic pixel (R, c) shows
\* in exactly one view, the one covering row R, at (R - i*box_size, c).
C3_Aliasing ==
    [][ (ret'.op = "get_cutout_list" /\ ret'.status = OK)
        => /\ ViewsAgree(heap', ret')
           /\ (nwrites' = nwrites + 1)
              => /\ ret' = ret
                 /\ Cardinality(Changed(heap, heap', ret.arr)) <= 1
                 /\ Cardinality(ChangedInViews(heap, heap', ret))
                      = Cardinality(Changed(heap, heap', ret.arr))
                 /\ \A p \in Changed(heap, heap', ret.arr) :
                      ChangedInViews(heap, heap', ret)
                        = { << (p[1] \div ret.list[1].nrow) + 1,
                               <<p[1] % ret.list[1].nrow, p[2]>> >> } ]_vars

C3_Witness ==
    /\ ret.op = "get_cutout_list" /\ ret.iobj = 0 /\ ret.status = OK
    /\ nwrites = 2
    /\ At(heap, ret.list[2], 0, 1) = -1
    /\ At(heap, ret.arr, 2, 1) = -1
    /\ At(heap, ret.arr, 0, 0) = -1

\* the stored pixel (r, c) of cutout (iobj, icutout) of an extension
Stored(ext, iobj, icutout, r, c) ==
    fits[ext][cat.start_row[iobj][icutout] + r * cat.box_size[iobj] + c + 1]

CweightReturned ==
    /\ ret.op = "get_cweight_cutout"
    /\ Valid(ret.iobj, ret.icutout)
    /\ ret.status = OK

\* the label the composite compares with: the reference segmentation at
\* the pixel the anchor lookup of this call read
SegIdOfCall ==
    At(heap, loc.coadd_seg,
       NormIndex(Trunc(cat.cutout_row[ret.iobj][ret.icutout]), loc.coadd_seg.nrow),
       NormIndex(Trunc(cat.cutout_col[ret.iobj][ret.icutout]), loc.coadd_seg.ncol))

\* C4: for cutout_index = 0 the composite weight has the shape of the
\* weight cutout, output pixel (r, c) is the stored weight where the
\* reference segmentation at (r, c) equals seg_id and 0 where it differs,
\* and the weight cutout that was passed in is unmodified.
C4_ReferenceFrame ==
    (CweightReturned /\ ret.icutout = 0)
    => /\ ret.arr.nrow = loc.wt.nrow /\ ret.arr.ncol = loc.wt.ncol
       /\ ret.arr.nrow = cat.box_size[ret.iobj]
       /\ ret.arr.ncol = cat.box_size[ret.iobj]
       /\ \A p \in Pixels(ret.arr) :
            At(heap, ret.arr, p[1], p[2])
              = IF Stored("seg_cutouts", ret.iobj, 0, p[1], p[2]) = SegIdOfCall
                THEN Stored("weight_cutouts", ret.iobj, 0, p[1], p[2])
                ELSE 0
       /\ \A p \in Pixels(loc.wt) :
            At(heap, loc.wt, p[1], p[2])
              = Stored("weight_cutouts", ret.iobj, 0, p[1], p[2])

C4_Witness ==
    /\ CweightReturned /\ ret.iobj = 0 /\ ret.icutout = 0
    /\ At(heap, ret.arr, 0, 0) = 11
    /\ At(heap, ret.arr, 0, 1) = 0
    /\ At(heap, ret.arr, 1, 1) = 14
    /\ At(heap, loc.wt, 0, 1) = 12

\* the anchor of the cutout lies inside the reference segmentation cutout
AnchorInside(iobj, icutout) ==
    /\ cat.cutout_row[iobj][icutout][1] >= 0
    /\ cat.cutout_row[iobj][icutout][1]
         < cat.box_size[iobj] * cat.cutout_row[iobj][icutout][2]
    /\ cat.cutout_col[iobj][icutout][1] >= 0
    /\ cat.cutout_col[iobj][icutout][1]
         < cat.box_size[iobj] * cat.cutout_col[iobj][icutout][2]

\* the determinant of the reference Jacobian of the object is zero
RefSingular(iobj) ==
    RIsZero(RSub(RMul(cat.dudrow[iobj][0], cat.dvdcol[iobj][0]),
                 RMul(cat.dudcol[iobj][0], cat.dvdrow[iobj][0])))

\* C5: for an epoch cutout whose anchor lies inside the reference
\* segmentation cutout and whose reference Jacobian has zero determinant,
\* get_cweight_cutout ends normally with a weight cutout of the input's
\* shape in which every pixel is 0.
C5_SingularFallback ==
    ( /\ ret.op = "get_cweight_cutout" /\ Valid(ret.iobj, ret.icutout)
      /\ ret.icutout > 0
      /\ AnchorInside(ret.iobj, ret.icutout)
      /\ RefSingular(ret.iobj) )
    => /\ ret.status = OK
       /\ ret.arr.nrow = cat.box_size[ret.iobj]
       /\ ret.arr.ncol = cat.box_size[ret.iobj]
       /\ \A p \in Pixels(ret.arr) : At(heap, ret.arr, p[1], p[2]) = 0

C5_Witness ==
    /\ CweightReturned /\ ret.iobj = 0 /\ ret.icutout = 1
    /\ AnchorInside(0, 1)
    /\ get_jacob_as_matrix(0, 0) = <<One, RInt(2), RInt(2), RInt(4)>>
    /\ get_jacob_as_matrix(0, 1) = <<One, One, Zero, RInt(-1)>>
    /\ \A p \in Pixels(ret.arr) : At(heap, ret.arr, p[1], p[2]) = 0
    /\ \A p \in Pixels(loc.wt) : At(heap, loc.wt, p[1], p[2]) # 0

\* band i of the mosaic m equals the array the call x returned
BandIs(h, m, box, i, x) ==
    /\ x.status = OK
    /\ \A p \in Pixels(x.arr) :
         At(h, m, i * box + p[1], p[2]) = At(x.heap, x.arr, p[1], p[2])

\* band i of the mosaic m is the stored weight cutout i
BandRaw(h, m, box, iobj, i) ==
    \A r \in 0..(box - 1), c \in 0..(box - 1) :
        At(h, m, i * box + r, c) = Stored("weight_cutouts", iobj, i, r, c)

\* C6: while get_cweight_mosaic loops, the bands it has passed hold the
\* composite weight of their cutout (as get_cweight_cutout computes it from
\* the stored weight and seg cutout 0) and the other bands still hold the
\* stored weights; the mosaic it returns has shape
\* (ncutout*box_size) x box_size with every band composited, and the views
\* get_cweight_cutout_list returns are the bands of that one buffer.
C6_CweightMosaic ==
    /\ pc = "cweight_loop"
       => \A i \in 0..(cat.ncutout[loc.iobj] - 1) :
            IF i < loc.icutout
            THEN BandIs(heap, loc.wtmosaic, cat.box_size[loc.iobj], i,
                        get_cweight_cutout(<<>>, loc.iobj, i))
            ELSE BandRaw(heap, loc.wtmosaic, cat.box_size[loc.iobj],
                         loc.iobj, i)
    /\ ( /\ ret.op \in {"get_cweight_mosaic", "get_cweight_cutout_list"}
         /\ ret.status = OK )
       => /\ ret.arr.nrow = cat.ncutout[ret.iobj] * cat.box_size[ret.iobj]
          /\ ret.arr.ncol = cat.box_size[ret.iobj]
          /\ Len(heap[ret.arr.base]) = ret.arr.nrow * ret.arr.ncol
          /\ \A i \in 0..(cat.ncutout[ret.iobj] - 1) :
               BandIs(heap, ret.arr, cat.box_size[ret.iobj], i,
                      get_cweight_cutout(<<>>, ret.iobj, i))
          /\ ret.op = "get_cweight_cutout_list"
             => /\ Len(ret.list) = cat.ncutout[ret.iobj]
                /\ \A i \in 0..(cat.ncutout[ret.iobj] - 1) :
                     ret.list[i + 1]
                       = [base |-> ret.arr.base,
                          off |-> i * cat.box_size[ret.iobj]
                                    * cat.box_size[ret.iobj],
                          nrow |-> cat.box_size[ret.iobj],
                          ncol |-> cat.box_size[ret.iobj]]

C6_Witness ==
    /\ ret.op = "get_cweight_cutout_list" /\ ret.iobj = 0 /\ ret.status = OK
    /\ ~RefSingular(0)
    /\ \E p, q \in Pixels(ret.list[1]) :
         /\ At(heap, ret.list[1], p[1], p[2]) = 0
         /\ At(heap, ret.list[1], q[1], q[2]) # 0
    /\ \E p, q \in Pixels(ret.list[2]) :
         /\ At(heap, ret.list[2], p[1], p[2]) = 0
         /\ At(heap, ret.list[2], q[1], q[2]) # 0

\* the array of the last call equals the array the call x returned
SameArray(x) ==
    /\ x.status = OK
    /\ x.arr.nrow = ret.arr.nrow /\ x.arr.ncol = ret.arr.ncol
    /\ \A p \in Pixels(ret.arr) :
         At(heap, ret.arr, p[1], p[2]) = At(x.heap, x.arr, p[1], p[2])

IdentityCase ==
    /\ CweightReturned /\ ret.icutout > 0
    /\ get_jacob_as_matrix(ret.iobj, ret.icutout) = JIdent
    /\ get_jacob_as_matrix(ret.iobj, 0) = JIdent
    /\ cat.cutout_row[ret.iobj][ret.icutout] = cat.cutout_row[ret.iobj][0]
    /\ cat.cutout_col[ret.iobj][ret.icutout] = cat.cutout_col[ret.iobj][0]

\* C7: for an epoch cutout whose Jacobian and reference Jacobian are the
\* identity and whose anchor equals the reference anchor, the composite
\* weight equals what the reference-frame case (cutout_index = 0) returns
\* on the same weight cutout and reference segmentation cutout.
C7_IdentityReduces ==
    IdentityCase
    => SameArray(make_composite_weight(heap, ret.iobj, 0, loc.wt,
                                       loc.coadd_seg))

C7_Witness ==
    /\ IdentityCase
    /\ \E p, q \in Pixels(ret.arr) :
         /\ At(heap, ret.arr, p[1], p[2]) = 0
         /\ At(heap, ret.arr, q[1], q[2]) # 0

InBounds(x, n) == 0 <= x /\ x < n

\* the nearest integer of a rational, halves to even (numpy.round)
RoundHalfEven(x) ==
    LET f == (2 * x[1] + x[2]) \div (2 * x[2])
    IN  IF (2 * x[1] + x[2]) % (2 * x[2]) = 0 /\ f % 2 # 0 THEN f - 1 ELSE f

\* C8: in the epoch-frame case with an invertible reference Jacobian, every
\* pixel whose mapped integer coordinates (crow, ccol) have crow outside
\* [0, seg_height) or ccol outside [0, seg_width) is 0 in the output.
C8_OutOfBoundsMasked ==
    (CweightReturned /\ ret.icutout > 0 /\ ~RefSingular(ret.iobj))
    => \A p \in Pixels(ret.arr) :
         \A q \in {pixel_coord(ret.iobj, ret.icutout, p[1], p[2])} :
            (~InBounds(q[1], loc.coadd_seg.nrow)
               \/ ~InBounds(q[2], loc.coadd_seg.ncol))
            => At(heap, ret.arr, p[1], p[2]) = 0

\* C9: the composite weight rounds to the nearest integer: seg_id is read
\* at (round(row_c), round(col_c)), and in the epoch-frame case the mapped
\* coordinates are rounded to the nearest integer.
C9_RoundsToNearest ==
    (ret.op = "get_cweight_cutout" /\ Valid(ret.iobj, ret.icutout))
    => /\ segid_index(ret.iobj, ret.icutout)
            = << RoundHalfEven(cat.cutout_row[ret.iobj][ret.icutout]),
                 RoundHalfEven(cat.cutout_col[ret.iobj][ret.icutout]) >>
       /\ (ret.icutout > 0 /\ ~RefSingular(ret.iobj))
          => \A r, c \in 0..(cat.box_size[ret.iobj] - 1) :
               \A m \in {mapped_coord(ret.iobj, ret.icutout, r, c)} :
                  pixel_coord(ret.iobj, ret.icutout, r, c)
                    = <<RoundHalfEven(m[1]), RoundHalfEven(m[2])>>

\* C10: for valid indices and any anchor, the seg_id lookup of the
\* composite weight uses a row index in [0, seg_height) and a column index
\* in [0, seg_width), and no index error is raised.
C10_LookupsInBounds ==
    (ret.op = "get_cweight_cutout" /\ Valid(ret.iobj, ret.icutout))
    => /\ ret.status # NumpyIndexError
       /\ InBounds(segid_index(ret.iobj, ret.icutout)[1],
                   cat.box_size[ret.iobj])
       /\ InBounds(segid_index(ret.iobj, ret.icutout)[2],
                   cat.box_size[ret.iobj])

====
